---------------------------- MODULE Spec2Model ----------------------------
(***************************************************************************)
(* A model of view0x's incremental analysis core:                          *)
(*   - IncrementalAnalyzer (src/python/analyzers/incremental_analyzer.py): *)
(*     compute_changeset, filter_affected_issues, merge_analysis_results   *)
(*   - MultiFileAnalyzer (src/python/analyzers/multi_file_analyzer.py):    *)
(*     build_dependency_graph, topological_sort                            *)
(* Each pure function is an operator computed the way the code computes    *)
(* it.  Each specification draws the function's inputs in its initial      *)
(* states and has one action per call.                                     *)
(***************************************************************************)
EXTENDS Integers, Sequences, FiniteSets, TLC

VARIABLES
    pc,             \* "start" before the call of the specification, "done" after
    old_code,       \* compute_changeset: old content, a sequence of characters
    new_code,       \* compute_changeset: new content, a sequence of characters
    changeset,      \* compute_changeset: the ChangeSet returned
    issues,         \* filter_affected_issues: the issue list given
    cs_in,          \* the ChangeSet given to filter_affected_issues and merge
    affected,       \* filter_affected_issues: the list returned
    cached_result,  \* merge_analysis_results: the cached report
    new_result,     \* merge_analysis_results: the fresh report (a dict, mutable)
    merged,         \* merge_analysis_results: the report returned, or the raise
    files,          \* build_dependency_graph: the files given, in dict order
    graph,          \* the dependency graph built from files
    sorted_files,   \* topological_sort: the list returned
    contracts,      \* build_inheritance_graph: the contract definitions given
    inheritance_graph, \* the inheritance graph built from contracts
    cycles,         \* detect_circular_inheritance: the list returned
    chain_root,     \* find_inheritance_chain: the contract name given
    chain,          \* find_inheritance_chain: the list returned
    false_positives, \* the engine's reports: dict key -> list, in key order
    issue_patterns, \* the engine's learning pattern per issue type
    learning_data,  \* the engine's learning log per issue type
    suppress,       \* should_suppress_issue: the answer to every query asked
    filtered,       \* filter_false_positives: the outcome for every list given
    exported,       \* export_false_positives: the JSON document returned
    imported,       \* the fresh engine after import_false_positives
    import_raised,  \* what import_false_positives into the engine raised
    cache,          \* IncrementalAnalyzer.cache: contract hash -> result
    stored,         \* the cache_analysis calls so far, each with its time
    now,            \* the retention windows that have passed so far
    got,            \* get_cached_analysis: the hash asked and the answer
    threads,        \* verify_false_positive: each caller in flight
    serial          \* the learning patterns of the same verifies, one by one

vars == <<pc, old_code, new_code, changeset, issues, cs_in, affected,
          cached_result, new_result, merged, files, graph, sorted_files,
          contracts, inheritance_graph, cycles, chain_root, chain,
          false_positives, issue_patterns, learning_data,
          suppress, filtered, exported, imported, import_raised,
          cache, stored, now, got, threads, serial>>

(***************************************************************************)
(* Bounds of the model.                                                    *)
(***************************************************************************)
\* Longest content (in characters) given to compute_changeset.
MaxChars == 6
\* Longest issue list given to filter_affected_issues.
MaxIssues == 2
\* Most line numbers in added, modified and removed together in a ChangeSet
\* given to filter_affected_issues or merge_analysis_results.
MaxChanged == 2
\* Most issues in one report given to merge_analysis_results.
MaxReportIssues == 1
\* Most import statements in all files given to build_dependency_graph.
MaxImports == 3
\* Most parents in all contract definitions given to build_inheritance_graph.
MaxParents == 4
\* Most calls of report_false_positive on one engine.
MaxReports == 2
\* Most successful calls of verify_false_positive on one engine.
MaxVerified == 3

\* Most calls of cache_analysis, and most retention windows that pass.
MaxStores == 3
MaxClock == 2

(***************************************************************************)
(* Contents.  A content is a Python str, modelled as a sequence of         *)
(* characters over a two-letter alphabet: a letter and the line feed.      *)
(***************************************************************************)
NL == "\n"

Chars == {"a", NL}

Contents == UNION {[1..k -> Chars] : k \in 0..MaxChars}

\* Index of the first line feed of s; Len(s) + 1 when there is none.
RECURSIVE FirstNL(_, _)
FirstNL(s, i) ==
    IF i > Len(s) THEN i
    ELSE IF s[i] = NL THEN i
    ELSE FirstNL(s, i + 1)

\* str.split('\n'): the pieces between line feeds; never an empty list
\* (''.split('\n') is ['']).
RECURSIVE SplitLines(_)
SplitLines(s) ==
    LET i == FirstNL(s, 1)
    IN  IF i > Len(s) THEN <<s>>
        ELSE <<SubSeq(s, 1, i - 1)>> \o SplitLines(SubSeq(s, i + 1, Len(s)))

\* hashlib.md5(line.encode()).hexdigest(): an injective tagging of the line
\* (md5 collisions are outside the model).
Md5(line) == <<"md5", line>>

LineHashes(lines) == [i \in 1..Len(lines) |-> Md5(lines[i])]

\* `h in hashes` on a Python list.
InHashes(h, hashes) == \E j \in 1..Len(hashes) : hashes[j] = h

(***************************************************************************)
(* compute_changeset.  Line numbers are 1-indexed (the code's i + 1).      *)
(***************************************************************************)
\* Lines 69-81: a new line beyond the old length is added; a new line whose
\* old line at the same index differs is added when the OLD line's digest
\* occurs nowhere in the new sequence.
AddedLines(old_hashes, new_hashes) ==
    {ln \in 1..Len(new_hashes) :
        IF ln <= Len(old_hashes)
        THEN /\ old_hashes[ln] # new_hashes[ln]
             /\ ~InHashes(old_hashes[ln], new_hashes)
        ELSE TRUE}

\* Mutant: the test old_hash != new_hash is dropped.
ModifiedLines_NoDifferTest(old_hashes, new_hashes) ==
    {ln \in 1..Len(new_hashes) :
        /\ ln <= Len(old_hashes)
        /\ InHashes(old_hashes[ln], new_hashes)}

\* Lines 69-77: ... and modified when the old line's digest still occurs
\* somewhere in the new sequence.
ModifiedLines(old_hashes, new_hashes) ==
    {ln \in 1..Len(new_hashes) :
        /\ ln <= Len(old_hashes)
        /\ old_hashes[ln] # new_hashes[ln]
        /\ InHashes(old_hashes[ln], new_hashes)}

\* Lines 84-87.
RemovedLines(old_hashes, new_hashes) ==
    {ln \in 1..Len(old_hashes) :
        \/ ln > Len(new_hashes)
        \/ ~InHashes(old_hashes[ln], new_hashes)}

\* Line 92, for the (1-indexed) line ln = i + 1.
IsUnchangedLine(ln, old_hashes, new_hashes, removed_lines) ==
    /\ ln \notin removed_lines
    /\ \/ ln > Len(new_hashes)
       \/ new_hashes[ln] = old_hashes[ln]

\* Mutant: the inner while loop never extends the run.
RunEnd_NoExtend(ln, old_hashes, new_hashes, removed_lines) == ln

\* Lines 93-97: the inner while loop, the last line of the run that has
\* reached line ln = i + 1.  Line 95 tests `i + 1 not in removed_lines`,
\* the number of the line the run is AT, and the digests at index i + 1,
\* the line AFTER it.
RECURSIVE RunEnd(_, _, _, _)
RunEnd(ln, old_hashes, new_hashes, removed_lines) ==
    IF /\ ln < Len(old_hashes)
       /\ ln \notin removed_lines
       /\ \/ ln >= Len(new_hashes)
          \/ new_hashes[ln + 1] = old_hashes[ln + 1]
    THEN RunEnd(ln + 1, old_hashes, new_hashes, removed_lines)
    ELSE ln

\* Lines 90-100: the outer while loop from line ln on.
RECURSIVE UnchangedRegions(_, _, _, _)
UnchangedRegions(ln, old_hashes, new_hashes, removed_lines) ==
    IF ln > Len(old_hashes) THEN <<>>
    ELSE IF IsUnchangedLine(ln, old_hashes, new_hashes, removed_lines)
    THEN LET end == RunEnd(ln, old_hashes, new_hashes, removed_lines)
         IN  <<<<ln, end>>>> \o
             UnchangedRegions(end + 1, old_hashes, new_hashes, removed_lines)
    ELSE UnchangedRegions(ln + 1, old_hashes, new_hashes, removed_lines)

compute_changeset(old, new) ==
    LET old_hashes == LineHashes(SplitLines(old))
        new_hashes == LineHashes(SplitLines(new))
        removed == RemovedLines(old_hashes, new_hashes)
    IN  [added_lines |-> AddedLines(old_hashes, new_hashes),
         modified_lines |-> ModifiedLines(old_hashes, new_hashes),
         removed_lines |-> removed,
         unchanged_regions |-> UnchangedRegions(1, old_hashes, new_hashes, removed)]

\* The ChangeSet fields before any call.
NoChangeSet ==
    [added_lines |-> {}, modified_lines |-> {}, removed_lines |-> {},
     unchanged_regions |-> <<>>]

(***************************************************************************)
(* Issues.  An issue is a Python dict; the model keeps the keys the code   *)
(* reads: location.line, lineNumber, severity, and type and description    *)
(* (the identity of a finding).  A missing line is NoLine, which is falsy  *)
(* like None, so `if issue_line:` treats both alike.                       *)
(***************************************************************************)
NoLine == 0

\* The window of line 129.
ProximityWindow == 20

\* Line numbers of issues and of changed lines: 1 and 21 are 20 apart
\* (inside the window), 1 and 22 are 21 apart (outside it).
LineChoices == {1, 21, 22}

Severities == {"HIGH", "MEDIUM", "LOW"}

\* The issues given to filter_affected_issues.
FilterIssues ==
    [type : {"reentrancy"}, severity : {"HIGH"},
     line : LineChoices \cup {NoLine}, lineNumber : {NoLine, 22},
     description : {"d"}]

\* The issues of the reports given to merge_analysis_results.
ReportIssues ==
    [type : {"reentrancy"}, severity : Severities,
     line : {1, 22}, lineNumber : {NoLine},
     description : {"d"}]

SeqsUpTo(S, n) == UNION {[1..k -> S] : k \in 0..n}

InSeq(x, xs) == \E i \in 1..Len(xs) : xs[i] = x

\* The ChangeSets given to filter_affected_issues and merge_analysis_results:
\* of the shape compute_changeset returns (added and modified disjoint,
\* modified and removed disjoint).
ChangeSetsIn ==
    {cs \in [added_lines : SUBSET LineChoices,
             modified_lines : SUBSET LineChoices,
             removed_lines : SUBSET LineChoices,
             unchanged_regions : {<<>>}] :
        /\ Cardinality(cs.added_lines) + Cardinality(cs.modified_lines)
             + Cardinality(cs.removed_lines) <= MaxChanged
        /\ cs.added_lines \cap cs.modified_lines = {}
        /\ cs.modified_lines \cap cs.removed_lines = {}}

Abs(x) == IF x < 0 THEN -x ELSE x

(***************************************************************************)
(* filter_affected_issues                                                  *)
(***************************************************************************)
\* Mutant: the two keys are read in the other order.
IssueLine_LineNumberFirst(issue) ==
    IF issue.lineNumber # NoLine THEN issue.lineNumber ELSE issue.line

\* Line 119: issue.get('location', {}).get('line') or issue.get('lineNumber').
IssueLine(issue) ==
    IF issue.line # NoLine THEN issue.line ELSE issue.lineNumber

\* A wrong variant of IsAffected: the window of lines 129-132 is left out.
IsAffected_ChangedOnly(issue, changed_lines) ==
    LET issue_line == IssueLine(issue)
    IN  IF issue_line # NoLine THEN issue_line \in changed_lines ELSE TRUE

\* Lines 121-134: whether the loop body appends the issue (once: the inner
\* loop breaks after its append).
IsAffected(issue, changed_lines) ==
    LET issue_line == IssueLine(issue)
    IN  IF issue_line # NoLine
        THEN \/ issue_line \in changed_lines
             \/ \E changed_line \in changed_lines :
                    Abs(issue_line - changed_line) <= ProximityWindow
        ELSE TRUE

filter_affected_issues(issue_list, cs) ==
    LET changed_lines ==
            cs.added_lines \cup cs.modified_lines \cup cs.removed_lines
    IN  SelectSeq(issue_list, LAMBDA issue : IsAffected(issue, changed_lines))

(***************************************************************************)
(* merge_analysis_results                                                  *)
(***************************************************************************)
\* hash(issue): an issue is a dict (Dict[str, Any]), which is unhashable.
Hashable(issue) == FALSE

\* The first occurrences of xs, in order.
RECURSIVE Dedup(_)
Dedup(xs) ==
    IF xs = <<>> THEN <<>>
    ELSE LET rest == Dedup(SubSeq(xs, 1, Len(xs) - 1))
             last == xs[Len(xs)]
         IN  IF \E i \in 1..Len(rest) : rest[i] = last
             THEN rest ELSE Append(rest, last)

\* Lines 169-179, list(set(xs)): set() hashes every element and raises
\* TypeError on the first unhashable one.
ListOfSet(xs) ==
    IF \E i \in 1..Len(xs) : ~Hashable(xs[i])
    THEN [raised |-> "TypeError", list |-> <<>>]
    ELSE [raised |-> "none", list |-> Dedup(xs)]

CountSeverity(vulns, severity) ==
    Cardinality({i \in 1..Len(vulns) : vulns[i].severity = severity})

\* Lines 182-189.
Summary(vulns, gas, quality) ==
    [totalVulnerabilities |-> Len(vulns),
     highSeverity |-> CountSeverity(vulns, "HIGH"),
     mediumSeverity |-> CountSeverity(vulns, "MEDIUM"),
     lowSeverity |-> CountSeverity(vulns, "LOW"),
     gasOptimizations |-> Len(gas),
     codeQualityIssues |-> Len(quality)]

\* A metadata dict: the keys it holds and the values of the two keys that
\* merge_analysis_results writes.
NoChangeStats == [added |-> 0, modified |-> 0, removed |-> 0]

EmptyMetadata ==
    [keys |-> {}, incremental |-> FALSE, changeset |-> NoChangeStats]

ToolMetadata ==
    [keys |-> {"tool"}, incremental |-> FALSE, changeset |-> NoChangeStats]

\* Lines 192-197: the two writes into the metadata dict.
WithIncremental(metadata, cs) ==
    [keys |-> metadata.keys \cup {"incremental", "changeset"},
     incremental |-> TRUE,
     changeset |-> [added |-> Cardinality(cs.added_lines),
                    modified |-> Cardinality(cs.modified_lines),
                    removed |-> Cardinality(cs.removed_lines)]]

\* What `merged` holds before the call and after a raise.
NoReport(raised) ==
    [raised |-> raised,
     summary |-> Summary(<<>>, <<>>, <<>>),
     vulnerabilities |-> <<>>, gasOptimizations |-> <<>>, codeQuality |-> <<>>,
     metadata |-> EmptyMetadata]

\* Lines 145-199.  Returns the report (or the raise) and the fresh report as
\* the call leaves it: line 191 aliases the fresh report's own metadata dict
\* when it has one, and lines 192-197 write into it.
merge_analysis_results(cached, new, cs) ==
    LET cached_vulns == filter_affected_issues(cached.vulnerabilities, cs)
        cached_gas == filter_affected_issues(cached.gasOptimizations, cs)
        cached_quality == filter_affected_issues(cached.codeQuality, cs)
        vulns == ListOfSet(cached_vulns \o new.vulnerabilities)
        gas == ListOfSet(cached_gas \o new.gasOptimizations)
        quality == ListOfSet(cached_quality \o new.codeQuality)
        metadata ==
            WithIncremental(IF new.has_metadata THEN new.metadata
                            ELSE EmptyMetadata, cs)
    IN  IF vulns.raised # "none" THEN
            [merged |-> NoReport(vulns.raised), new_result |-> new]
        ELSE IF gas.raised # "none" THEN
            [merged |-> NoReport(gas.raised), new_result |-> new]
        ELSE IF quality.raised # "none" THEN
            [merged |-> NoReport(quality.raised), new_result |-> new]
        ELSE
            [merged |->
                [raised |-> "none",
                 summary |-> Summary(vulns.list, gas.list, quality.list),
                 vulnerabilities |-> vulns.list,
                 gasOptimizations |-> gas.list,
                 codeQuality |-> quality.list,
                 metadata |-> metadata],
             new_result |->
                IF new.has_metadata
                THEN [new EXCEPT !.metadata = metadata]
                ELSE new]

\* The reports given to merge_analysis_results.
Reports ==
    {r \in [vulnerabilities : SeqsUpTo(ReportIssues, MaxReportIssues),
            gasOptimizations : SeqsUpTo(ReportIssues, MaxReportIssues),
            codeQuality : SeqsUpTo(ReportIssues, MaxReportIssues),
            has_metadata : BOOLEAN,
            metadata : {EmptyMetadata, ToolMetadata}] :
        /\ Len(r.vulnerabilities) + Len(r.gasOptimizations)
             + Len(r.codeQuality) <= MaxReportIssues
        /\ r.metadata = (IF r.has_metadata THEN ToolMetadata ELSE EmptyMetadata)}

EmptyReport ==
    [vulnerabilities |-> <<>>, gasOptimizations |-> <<>>, codeQuality |-> <<>>,
     has_metadata |-> FALSE, metadata |-> EmptyMetadata]

(***************************************************************************)
(* MultiFileAnalyzer.  A file is its name and the paths of its import      *)
(* statements in order (what extract_imports returns for its content); the *)
(* files dict is the sequence of its items in insertion order.  A graph    *)
(* (a dict of lists) is its keys in insertion order and its lists.         *)
(***************************************************************************)
FileNames == {"main", "lib1", "lib2"}

IsInjective(f) == \A i, j \in DOMAIN f : i # j => f[i] # f[j]

NameOrders == {ns \in SeqsUpTo(FileNames, Cardinality(FileNames)) : IsInjective(ns)}

RECURSIVE TotalLen(_, _)
TotalLen(seqs, i) == IF i > Len(seqs) THEN 0 ELSE Len(seqs[i]) + TotalLen(seqs, i + 1)

\* The sequences of n lists over S that hold at most budget elements in all.
RECURSIVE ListsWithin(_, _, _)
ListsWithin(S, n, budget) ==
    IF n = 0 THEN {<<>>}
    ELSE UNION {{<<first>> \o rest :
                    rest \in ListsWithin(S, n - 1, budget - Len(first))} :
                first \in SeqsUpTo(S, budget)}

\* The files dicts given to build_dependency_graph.
FileDicts ==
    UNION {{[i \in 1..Len(ns) |-> [name |-> ns[i], imports |-> imps[i]]] :
               imps \in ListsWithin(FileNames, Len(ns), MaxImports)} :
           ns \in NameOrders}

EmptyGraph == [keys |-> <<>>, adj |-> [n \in FileNames |-> <<>>]]

\* Lines 75-81 for one file: graph[filename] comes to exist (defaultdict)
\* only when the file has an import; a path is appended once.
AddImports(g, filename, imports) ==
    IF imports = <<>> THEN g
    ELSE [keys |-> IF InSeq(filename, g.keys) THEN g.keys
                   ELSE Append(g.keys, filename),
          adj |-> [g.adj EXCEPT ![filename] = Dedup(@ \o imports)]]

\* Lines 72-83.
RECURSIVE build_dependency_graph(_)
build_dependency_graph(fs) ==
    IF fs = <<>> THEN EmptyGraph
    ELSE LET last == fs[Len(fs)]
         IN  AddImports(build_dependency_graph(SubSeq(fs, 1, Len(fs) - 1)),
                        last.name, last.imports)

\* graph.get(node, []).
Neighbors(g, node) == IF InSeq(node, g.keys) THEN g.adj[node] ELSE <<>>

\* Lines 88-94: the number of list entries naming node.
InDegree(g, node) ==
    Cardinality(UNION {{<<k, i>> : i \in {j \in 1..Len(g.adj[g.keys[k]]) :
                                              g.adj[g.keys[k]][j] = node}} :
                       k \in 1..Len(g.keys)})

\* Lines 105-108: the for loop over the neighbors nbrs[i..] of the node
\* just popped; returns the queue and the in-degrees it leaves.
RECURSIVE RemoveEdges(_, _, _, _)
RemoveEdges(nbrs, i, queue, in_degree) ==
    IF i > Len(nbrs) THEN [queue |-> queue, in_degree |-> in_degree]
    ELSE LET d == [in_degree EXCEPT ![nbrs[i]] = @ - 1]
         IN  RemoveEdges(nbrs, i + 1,
                         IF d[nbrs[i]] = 0 THEN Append(queue, nbrs[i]) ELSE queue,
                         d)

\* Lines 100-108: the while loop.
RECURSIVE Drain(_, _, _, _)
Drain(g, queue, result, in_degree) ==
    IF queue = <<>> THEN result
    ELSE LET node == Head(queue)
             step == RemoveEdges(Neighbors(g, node), 1, Tail(queue), in_degree)
         IN  Drain(g, step.queue, Append(result, node), step.in_degree)

\* Lines 111-113: the keys not in the result yet, appended in key order.
RECURSIVE AppendRemaining(_, _, _)
AppendRemaining(keys, i, result) ==
    IF i > Len(keys) THEN result
    ELSE AppendRemaining(keys, i + 1,
                         IF InSeq(keys[i], result) THEN result
                         ELSE Append(result, keys[i]))

\* Lines 88-115.
topological_sort(g) ==
    LET in_degree == [n \in FileNames |-> InDegree(g, n)]
        queue == SelectSeq(g.keys, LAMBDA node : in_degree[node] = 0)
    IN  AppendRemaining(g.keys, 1, Drain(g, queue, <<>>, in_degree))

(***************************************************************************)
(* DependencyAnalyzer (src/python/analyzers/dependency_analyzer.py).  A    *)
(* contract definition is its name and its parents in declaration order;   *)
(* the inheritance graph is a dict of lists like the dependency graph.     *)
(***************************************************************************)
ContractNames == {"A", "B", "C"}

ContractOrders ==
    {ns \in SeqsUpTo(ContractNames, Cardinality(ContractNames)) : IsInjective(ns)}

\* The contract lists given to build_inheritance_graph that define the
\* contracts ns, in that order.
ContractLists(ns) ==
    {[i \in 1..Len(ns) |-> [name |-> ns[i], parents |-> ps[i]]] :
        ps \in ListsWithin(ContractNames, Len(ns), MaxParents)}

EmptyInheritance == [keys |-> <<>>, adj |-> [n \in ContractNames |-> <<>>]]

\* Lines 57-60 for one contract: graph[contract_name] comes to exist
\* (defaultdict) at the first parent; every parent is appended.
AddParents(g, contract_name, parents) ==
    IF parents = <<>> THEN g
    ELSE [keys |-> IF InSeq(contract_name, g.keys) THEN g.keys
                   ELSE Append(g.keys, contract_name),
          adj |-> [g.adj EXCEPT ![contract_name] = @ \o parents]]

\* Lines 55-62.
RECURSIVE build_inheritance_graph(_)
build_inheritance_graph(cs) ==
    IF cs = <<>> THEN EmptyInheritance
    ELSE LET last == cs[Len(cs)]
         IN  AddParents(build_inheritance_graph(SubSeq(cs, 1, Len(cs) - 1)),
                        last.name, last.parents)

\* The state of find_inheritance_chain before dfs (lines 66-67).
NoChain == [chain |-> <<>>, visited |-> {}]

\* A wrong variant of ChainEnter: the node is put in front of the chain.
ChainEnter_Prepend(st, node) ==
    [chain |-> <<node>> \o st.chain, visited |-> st.visited \cup {node}]

\* Lines 72-73: visited.add(node); chain.append(node).
ChainEnter(st, node) ==
    [chain |-> Append(st.chain, node), visited |-> st.visited \cup {node}]

RECURSIVE chain_dfs(_, _, _)
RECURSIVE ChainParents(_, _, _, _)

\* Lines 75-76: the for loop of dfs(node) from its i-th parent on.
ChainParents(g, node, i, st) ==
    IF i > Len(Neighbors(g, node)) THEN st
    ELSE ChainParents(g, node, i + 1, chain_dfs(g, Neighbors(g, node)[i], st))

\* Lines 69-76, the dfs of find_inheritance_chain.
chain_dfs(g, node, st) ==
    IF node \in st.visited THEN st
    ELSE ChainParents(g, node, 1, ChainEnter(st, node))

\* Lines 64-79.
find_inheritance_chain(contract_name, g) ==
    chain_dfs(g, contract_name, NoChain).chain

\* list.index: the first position of x in xs.
IndexOf(xs, x) ==
    CHOOSE i \in 1..Len(xs) : xs[i] = x /\ \A j \in 1..(i - 1) : xs[j] # x

\* A wrong variant of CycleFrom: the whole path, not the part from neighbor.
CycleFrom_WholePath(path, neighbor) == path \o <<neighbor>>

\* Lines 96-98: path[cycle_start:] + [neighbor].
CycleFrom(path, neighbor) ==
    SubSeq(path, IndexOf(path, neighbor), Len(path)) \o <<neighbor>>

\* The state of detect_circular_inheritance before any dfs (lines 83-86).
NoSearch == [cycles |-> <<>>, visited |-> {}, rec_stack |-> {}, path |-> <<>>]

RECURSIVE dfs(_, _, _)
RECURSIVE VisitParents(_, _, _, _)

\* Lines 93-98: the for loop of dfs(node) from its i-th neighbor on.
VisitParents(g, node, i, st) ==
    IF i > Len(Neighbors(g, node)) THEN st
    ELSE LET neighbor == Neighbors(g, node)[i]
         IN  VisitParents(g, node, i + 1,
                 IF neighbor \notin st.visited THEN dfs(g, neighbor, st)
                 ELSE IF neighbor \in st.rec_stack
                      THEN [st EXCEPT !.cycles =
                                Append(@, CycleFrom(st.path, neighbor))]
                      ELSE st)

\* Lines 88-101.
dfs(g, node, st) ==
    LET entered == [st EXCEPT !.visited = @ \cup {node},
                              !.rec_stack = @ \cup {node},
                              !.path = Append(@, node)]
        left == VisitParents(g, node, 1, entered)
    IN  [left EXCEPT !.rec_stack = @ \ {node},
                     !.path = SubSeq(@, 1, Len(@) - 1)]

\* Lines 103-105: the loop over the keys from the i-th on.
RECURSIVE SearchFrom(_, _, _)
SearchFrom(g, i, st) ==
    IF i > Len(g.keys) THEN st
    ELSE SearchFrom(g, i + 1,
                    IF g.keys[i] \notin st.visited THEN dfs(g, g.keys[i], st)
                    ELSE st)

\* A wrong variant of detect_circular_inheritance: the search starts from
\* the first key only.
detect_circular_inheritance_FirstKeyOnly(g) ==
    IF g.keys = <<>> THEN <<>> ELSE dfs(g, g.keys[1], NoSearch).cycles

\* Lines 81-108.
detect_circular_inheritance(g) == SearchFrom(g, 1, NoSearch).cycles

(***************************************************************************)
(* FalsePositiveHandler, the false-positive learning engine                *)
(* (src/python/analyzers/false_positive_handler.py).  A location is a dict *)
(* read at "line", "lineNumber" and "type"; a key absent from the dict is  *)
(* NoLine or None.  false_positives (a defaultdict of lists) is its keys   *)
(* in insertion order and its lists; the key f"{type}:{hash}" is the pair. *)
(***************************************************************************)
IssueTypes == {"reentrancy"}
ContractHashes == {"h1", "h2"}
ReportLines == {10, 12}
Reasons == {"guarded", "test-only"}
LocationTypes == {"line", "function"}
None == "None"

Locations ==
    [line : ReportLines, lineNumber : {NoLine}, type : LocationTypes]

FPKeys == IssueTypes \X ContractHashes

\* The range of line 102.
LineTolerance == 5

\* The least false_positive_count of line 174.
MinReports == 3

\* The default threshold of line 161, 0.7, in tenths.
DefaultThreshold == 7

\* Line 57 (and 76, 112): key = f"{issue_type}:{contract_hash}".
KeyOf(issue_type, contract_hash) == <<issue_type, contract_hash>>

\* Lines 46-55: the report built by report_false_positive.
NewReport(issue_id, issue_type, contract_hash, location, reason) ==
    [issue_id |-> issue_id, issue_type |-> issue_type,
     contract_hash |-> contract_hash, location |-> location,
     reason |-> reason, reported_by |-> None, reported_at |-> "now",
     verified |-> FALSE]

\* Lines 31-34: the engine after __init__.
NoFalsePositives == [keys |-> <<>>, lists |-> [k \in FPKeys |-> <<>>]]
NoEntry == [present |-> FALSE, false_positive_count |-> 0, patterns |-> <<>>]
NoPatterns == [t \in IssueTypes |-> NoEntry]
NoLearningData == [t \in IssueTypes |-> <<>>]

\* key in self.false_positives.
HasKey(fps, key) == InSeq(key, fps.keys)

\* Lines 36-68: the engine after report_false_positive.
report_false_positive(fps, ld, issue_id, issue_type, contract_hash, location, reason) ==
    LET report == NewReport(issue_id, issue_type, contract_hash, location, reason)
        key == KeyOf(issue_type, contract_hash)
    IN  [false_positives |->
             [keys |-> IF HasKey(fps, key) THEN fps.keys ELSE Append(fps.keys, key),
              lists |-> [fps.lists EXCEPT ![key] = Append(@, report)]],
         learning_data |->
             [ld EXCEPT ![issue_type] =
                 Append(@, [contract_hash |-> contract_hash,
                            location |-> location, reason |-> reason,
                            reported_at |-> report.reported_at])]]

\* Lines 93-94: loc.get("line") or loc.get("lineNumber").
LocationLine(loc) == IF loc.line # NoLine THEN loc.line ELSE loc.lineNumber

\* Lines 91-104: the exact-line test returns whenever both lines are
\* truthy, so the range test below it is never reached.
location_matches(loc1, loc2) ==
    LET line1 == LocationLine(loc1)
        line2 == LocationLine(loc2)
    IN  IF line1 # NoLine /\ line2 # NoLine THEN line1 = line2
        ELSE IF line1 # NoLine /\ line2 # NoLine
             THEN Abs(line1 - line2) <= LineTolerance
             ELSE FALSE

\* A wrong variant of is_false_positive: the verified flag is not looked at.
is_false_positive_AnyReport(fps, issue_type, contract_hash, location) ==
    LET key == KeyOf(issue_type, contract_hash)
    IN  /\ HasKey(fps, key)
        /\ \E i \in 1..Len(fps.lists[key]) :
               location_matches(fps.lists[key][i].location, location)

\* Lines 70-89.
is_false_positive(fps, issue_type, contract_hash, location) ==
    LET key == KeyOf(issue_type, contract_hash)
    IN  /\ HasKey(fps, key)
        /\ \E i \in 1..Len(fps.lists[key]) :
               /\ fps.lists[key][i].verified
               /\ location_matches(fps.lists[key][i].location, location)

\* Lines 144-148: the first pattern with the report's reason, 0 if none.
ExistingPattern(patterns, reason) ==
    IF \E i \in 1..Len(patterns) : patterns[i].reason = reason
    THEN CHOOSE i \in 1..Len(patterns) :
             /\ patterns[i].reason = reason
             /\ \A j \in 1..(i - 1) : patterns[j].reason # reason
    ELSE 0

\* Lines 127-154: the entry of the report's type after the update.
update_learning_pattern(ips, report) ==
    LET entry == IF ips[report.issue_type].present THEN ips[report.issue_type]
                 ELSE [present |-> TRUE, false_positive_count |-> 0,
                       patterns |-> <<>>]
        pattern == [reason |-> report.reason,
                    location_type |-> report.location.type, count |-> 1]
        existing == ExistingPattern(entry.patterns, report.reason)
    IN  [ips EXCEPT ![report.issue_type] =
            [present |-> TRUE,
             false_positive_count |-> entry.false_positive_count + 1,
             patterns |-> IF existing # 0
                          THEN [entry.patterns EXCEPT ![existing].count = @ + 1]
                          ELSE Append(entry.patterns, pattern)]]

\* Lines 119-123: the first report of the list that matches, 0 if none.
FirstMatch(reports, location) ==
    IF \E i \in 1..Len(reports) : location_matches(reports[i].location, location)
    THEN CHOOSE i \in 1..Len(reports) :
             /\ location_matches(reports[i].location, location)
             /\ \A j \in 1..(i - 1) :
                    ~location_matches(reports[j].location, location)
    ELSE 0

\* Lines 106-125: what verify_false_positive returns and the engine after.
verify_false_positive(fps, ips, issue_type, contract_hash, location) ==
    LET key == KeyOf(issue_type, contract_hash)
        i == IF HasKey(fps, key) THEN FirstMatch(fps.lists[key], location) ELSE 0
    IN  IF i = 0
        THEN [ret |-> FALSE, false_positives |-> fps, issue_patterns |-> ips]
        ELSE [ret |-> TRUE,
              false_positives |->
                  [fps EXCEPT !.lists[key][i].verified = TRUE],
              issue_patterns |->
                  update_learning_pattern(ips, fps.lists[key][i])]

\* Lines 178-180: min(1.0, count / fp_count) >= threshold, the threshold
\* in tenths.
ConfidentEnough(count, fp_count, tenths) ==
    10 * (IF count > fp_count THEN fp_count ELSE count) >= tenths * fp_count

\* Lines 156-183.
should_suppress_issue(fps, ips, issue_type, contract_hash, location, tenths) ==
    \/ is_false_positive(fps, issue_type, contract_hash, location)
    \/ /\ ips[issue_type].present
       /\ ips[issue_type].false_positive_count >= MinReports
       /\ \E i \in 1..Len(ips[issue_type].patterns) :
              /\ ips[issue_type].patterns[i].location_type = location.type
              /\ ConfidentEnough(ips[issue_type].patterns[i].count,
                                 ips[issue_type].false_positive_count, tenths)

\* The calls should_suppress_issue(issue_type, contract_hash, location,
\* threshold) asked of an engine; thresholds 0.5, 0.7 and 1.0 in tenths.
Thresholds == {5, DefaultThreshold, 10}

SuppressQueries ==
    [issue_type : IssueTypes, contract_hash : ContractHashes,
     location : Locations, threshold : Thresholds]

\* The issues given to filter_false_positives: one with "type" and a
\* location dict, one with "check" and "lineNumber" only (no "location").
NoLocation == [line |-> NoLine, lineNumber |-> NoLine, type |-> None]

FoundIssues ==
    {[type |-> "reentrancy", check |-> None,
      location |-> [line |-> 10, lineNumber |-> NoLine, type |-> "line"],
      lineNumber |-> NoLine, suppressed |-> FALSE, suppression_reason |-> None],
     [type |-> None, check |-> "reentrancy", location |-> NoLocation,
      lineNumber |-> 12, suppressed |-> FALSE, suppression_reason |-> None]}

\* The calls filter_false_positives(issues, contract_hash) asked of an
\* engine: every list of found issues, in any order and with repeats, as
\* long as there are found issues.
FilterCalls ==
    [issues : SeqsUpTo(FoundIssues, Cardinality(FoundIssues)),
     contract_hash : ContractHashes]

\* Line 194: issue.get("type") or issue.get("check").
IssueTypeOf(issue) == IF issue.type # None THEN issue.type ELSE issue.check

\* Lines 195-198: issue.get("location") or the dict made of "lineNumber".
IssueLocation(issue) ==
    IF issue.location # NoLocation THEN issue.location
    ELSE [line |-> issue.lineNumber, lineNumber |-> NoLine, type |-> "line"]

\* A wrong variant of FilterOne: the flagged issue is appended as well.
FilterOne_KeepFlagged(acc, issue, suppressed) ==
    IF ~suppressed
    THEN [filtered |-> Append(acc.filtered, issue),
          issues |-> Append(acc.issues, issue)]
    ELSE LET flagged == [issue EXCEPT !.suppressed = TRUE,
                            !.suppression_reason = "Known false positive"]
         IN  [filtered |-> Append(acc.filtered, flagged),
              issues |-> Append(acc.issues, flagged)]

\* Lines 200-205 for one issue: acc.filtered is the list being built,
\* acc.issues the caller's dicts as the loop leaves them.
FilterOne(acc, issue, suppressed) ==
    IF ~suppressed
    THEN [filtered |-> Append(acc.filtered, issue),
          issues |-> Append(acc.issues, issue)]
    ELSE [filtered |-> acc.filtered,
          issues |-> Append(acc.issues,
                        [issue EXCEPT !.suppressed = TRUE,
                            !.suppression_reason = "Known false positive"])]

\* Lines 193-205: the loop from the i-th issue on.
RECURSIVE FilterFrom(_, _, _, _, _, _)
FilterFrom(fps, ips, issue_list, contract_hash, i, acc) ==
    IF i > Len(issue_list) THEN acc
    ELSE FilterFrom(fps, ips, issue_list, contract_hash, i + 1,
             FilterOne(acc, issue_list[i],
                 should_suppress_issue(fps, ips, IssueTypeOf(issue_list[i]),
                     contract_hash, IssueLocation(issue_list[i]), DefaultThreshold)))

\* Lines 185-207: the list returned (filtered) and the caller's list after
\* the call (issues).
filter_false_positives(fps, ips, issue_list, contract_hash) ==
    FilterFrom(fps, ips, issue_list, contract_hash, 1,
               [filtered |-> <<>>, issues |-> <<>>])

\* json.dumps and json.loads on the values a report and a pattern hold:
\* True/False are written true/false, None is written null, a string or a
\* number is written as itself; loads reads each back.
JsonBool(b) == IF b THEN "true" ELSE "false"
ParseBool(j) == j = "true"
JsonOptional(v) == IF v = None THEN "null" ELSE v
ParseOptional(j) == IF j = "null" THEN None ELSE j

\* dataclasses.asdict(r), written by json.dumps: one member per field.
JsonReport(r) ==
    [issue_id |-> r.issue_id, issue_type |-> r.issue_type,
     contract_hash |-> r.contract_hash,
     location |-> [line |-> r.location.line,
                   lineNumber |-> r.location.lineNumber,
                   type |-> JsonOptional(r.location.type)],
     reason |-> r.reason, reported_by |-> JsonOptional(r.reported_by),
     reported_at |-> JsonOptional(r.reported_at),
     verified |-> JsonBool(r.verified)]

\* A wrong variant of ParseReport: the verified member is not passed on, so
\* the dataclass default (False) is taken.
ParseReport_DefaultVerified(j) ==
    [issue_id |-> j.issue_id, issue_type |-> j.issue_type,
     contract_hash |-> j.contract_hash,
     location |-> [line |-> j.location.line,
                   lineNumber |-> j.location.lineNumber,
                   type |-> ParseOptional(j.location.type)],
     reason |-> j.reason, reported_by |-> ParseOptional(j.reported_by),
     reported_at |-> ParseOptional(j.reported_at),
     verified |-> FALSE]

\* Line 250: FalsePositiveReport(**r) of a member read by json.loads.
ParseReport(j) ==
    [issue_id |-> j.issue_id, issue_type |-> j.issue_type,
     contract_hash |-> j.contract_hash,
     location |-> [line |-> j.location.line,
                   lineNumber |-> j.location.lineNumber,
                   type |-> ParseOptional(j.location.type)],
     reason |-> j.reason, reported_by |-> ParseOptional(j.reported_by),
     reported_at |-> ParseOptional(j.reported_at),
     verified |-> ParseBool(j.verified)]

\* self.issue_patterns written by json.dumps: a member per type present.
JsonPatterns(ips) ==
    [t \in {u \in IssueTypes : ips[u].present} |->
        [false_positive_count |-> ips[t].false_positive_count,
         patterns |-> [i \in 1..Len(ips[t].patterns) |->
                          [reason |-> ips[t].patterns[i].reason,
                           location_type |->
                               JsonOptional(ips[t].patterns[i].location_type),
                           count |-> ips[t].patterns[i].count]]]]

\* Line 254: the dict json.loads reads, taken as self.issue_patterns.
ParsePatterns(j) ==
    [t \in IssueTypes |->
        IF t \in DOMAIN j
        THEN [present |-> TRUE,
              false_positive_count |-> j[t].false_positive_count,
              patterns |-> [i \in 1..Len(j[t].patterns) |->
                               [reason |-> j[t].patterns[i].reason,
                                location_type |->
                                    ParseOptional(j[t].patterns[i].location_type),
                                count |-> j[t].patterns[i].count]]]
        ELSE NoEntry]

\* Lines 229-239: the document export_false_positives returns; its
\* false_positives object has a member per key, in the dict's order.
export_false_positives(fps, ips) ==
    [false_positives |->
         [i \in 1..Len(fps.keys) |->
             [key |-> fps.keys[i],
              reports |-> [n \in 1..Len(fps.lists[fps.keys[i]]) |->
                              JsonReport(fps.lists[fps.keys[i]][n])]]],
     learning_patterns |-> JsonPatterns(ips),
     exported_at |-> "now"]

\* What json.dumps returned, as the text given to json.loads.
JsonText(doc) == [valid |-> TRUE, data |-> doc]

\* The fields of FalsePositiveReport (lines 18-26) without a default, and
\* all of them.
RequiredFields ==
    {"issue_id", "issue_type", "contract_hash", "location", "reason"}

ReportFields == RequiredFields \cup {"reported_by", "reported_at", "verified"}

\* Line 250: FalsePositiveReport(**r) raises TypeError when r lacks a field
\* without a default or names one the dataclass does not have.
Constructs(j) ==
    RequiredFields \subseteq DOMAIN j /\ DOMAIN j \subseteq ReportFields

\* Lines 248-251: the loop over the members from the i-th on; each builds
\* the list of its reports and then sets self.false_positives[key] to it.
\* A report that does not construct raises before its key is set.
RECURSIVE ImportFrom(_, _, _)
ImportFrom(members, i, fps) ==
    IF i > Len(members) THEN [raised |-> "none", false_positives |-> fps]
    ELSE IF \E n \in 1..Len(members[i].reports) :
                ~Constructs(members[i].reports[n])
    THEN [raised |-> "TypeError", false_positives |-> fps]
    ELSE ImportFrom(members, i + 1,
             [keys |-> IF HasKey(fps, members[i].key) THEN fps.keys
                       ELSE Append(fps.keys, members[i].key),
              lists |-> [fps.lists EXCEPT ![members[i].key] =
                            [n \in 1..Len(members[i].reports) |->
                                ParseReport(members[i].reports[n])]]])

\* Lines 241-258: what import_false_positives raised (lines 256-258 log and
\* raise again) and the engine after it (learning_data is not touched).
\* json.loads raises on text that is no JSON (line 244); the patterns are
\* taken (line 254) only when every key was imported.
import_false_positives(fps, ips, json_data) ==
    IF ~json_data.valid
    THEN [raised |-> "JSONDecodeError", false_positives |-> fps,
          issue_patterns |-> ips]
    ELSE LET read == ImportFrom(json_data.data.false_positives, 1, fps)
         IN  [raised |-> read.raised,
              false_positives |-> read.false_positives,
              issue_patterns |->
                  IF read.raised = "none"
                  THEN ParsePatterns(json_data.data.learning_patterns)
                  ELSE ips]

\* The engine whose export is given to import_false_positives: a report at
\* each of two keys.
ExportingEngine ==
    LET first == report_false_positive(NoFalsePositives, NoLearningData, "issue",
                     "reentrancy", "h1",
                     [line |-> 10, lineNumber |-> NoLine, type |-> "line"],
                     "guarded")
    IN  report_false_positive(first.false_positives, first.learning_data,
            "issue", "reentrancy", "h2",
            [line |-> 12, lineNumber |-> NoLine, type |-> "line"], "guarded")

ExportedDocument ==
    export_false_positives(ExportingEngine.false_positives, NoPatterns)

\* A JSON object without one of its members.
WithoutMember(j, name) == [m \in DOMAIN j \ {name} |-> j[m]]

\* The document with the first report of its k-th key lacking "reason".
Malformed(doc, k) ==
    [doc EXCEPT !.false_positives[k].reports[1] = WithoutMember(@, "reason")]

\* The texts given to import_false_positives: the export of an engine, the
\* same with a malformed report in its first or in its last key, and text
\* that is no JSON.
ImportTexts ==
    {JsonText(ExportedDocument),
     JsonText(Malformed(ExportedDocument, 1)),
     JsonText(Malformed(ExportedDocument, Len(ExportedDocument.false_positives))),
     [valid |-> FALSE, data |-> ExportedDocument]}

(***************************************************************************)
(* The analysis cache of IncrementalAnalyzer (incremental_analyzer.py,     *)
(* lines 26-40): a dict from contract hash to analysis result.  A key the  *)
(* dict does not hold is None, which is what dict.get answers for it.      *)
(***************************************************************************)
Fingerprints == {"f1", "f2"}

AnalysisResults == {"result1", "result2"}

\* Line 27: self.cache = {}.
NoCache == [f \in Fingerprints |-> None]

\* Lines 34-36: self.cache.get(contract_hash).
get_cached_analysis(c, contract_hash) == c[contract_hash]

\* A wrong variant of cache_analysis: a hash already cached keeps its result.
cache_analysis_KeepFirst(c, contract_hash, analysis_result) ==
    IF c[contract_hash] # None THEN c
    ELSE [c EXCEPT ![contract_hash] = analysis_result]

\* Lines 38-40: self.cache[contract_hash] = analysis_result.
cache_analysis(c, contract_hash, analysis_result) ==
    [c EXCEPT ![contract_hash] = analysis_result]

\* No hash asked yet.
NoAnswer == [contract_hash |-> None, result |-> None]

(***************************************************************************)
(* verify_false_positive called by several threads on one engine.  The     *)
(* handler takes no lock, so the reads and writes of                       *)
(* _update_learning_pattern (lines 127-154) of different callers           *)
(* interleave.  A caller is where it is in the method and what it holds in *)
(* its frame: the report it verified, whether it saw the type's entry      *)
(* absent, the value it read for "+= 1", the pattern it found, and whether *)
(* the dict it holds a reference to was since replaced in issue_patterns   *)
(* (a write into a replaced dict never reaches the engine).                *)
(***************************************************************************)
ThreadIds == {"t1", "t2"}

IdleThread ==
    [pc |-> "idle", issue_type |-> None, reason |-> None,
     location_type |-> None, local |-> 0, existing |-> 0, replaced |-> FALSE]

NoThreads == [t \in ThreadIds |-> IdleThread]

\* Lines 130-133: the entry written for a type that has none.
NewEntry == [present |-> TRUE, false_positive_count |-> 0, patterns |-> <<>>]

\* Lines 138-142: the pattern dict of a report.
NewPattern(th) ==
    [reason |-> th.reason, location_type |-> th.location_type, count |-> 1]

\* The engines the callers start on: a report at each of two lines of one
\* key, and perhaps a verified report of another key, whose verification
\* made the type's entry.
RaceEngine(first_reason, second_reason, seeded) ==
    LET a == report_false_positive(NoFalsePositives, NoLearningData, "issue",
                 "reentrancy", "h1",
                 [line |-> 10, lineNumber |-> NoLine, type |-> "line"],
                 first_reason)
        b == report_false_positive(a.false_positives, a.learning_data, "issue",
                 "reentrancy", "h1",
                 [line |-> 12, lineNumber |-> NoLine, type |-> "line"],
                 second_reason)
        c == report_false_positive(b.false_positives, b.learning_data, "issue",
                 "reentrancy", "h2",
                 [line |-> 10, lineNumber |-> NoLine, type |-> "line"],
                 "guarded")
        d == verify_false_positive(c.false_positives, NoPatterns, "reentrancy",
                 "h2", [line |-> 10, lineNumber |-> NoLine, type |-> "line"])
    IN  IF seeded
        THEN [false_positives |-> d.false_positives,
              issue_patterns |-> d.issue_patterns,
              learning_data |-> c.learning_data]
        ELSE [false_positives |-> b.false_positives,
              issue_patterns |-> NoPatterns,
              learning_data |-> b.learning_data]

(***************************************************************************)
(* What each specification leaves alone.                                   *)
(***************************************************************************)
FilterIdle == issues = <<>> /\ cs_in = NoChangeSet /\ affected = <<>>

MergeIdle ==
    /\ cached_result = EmptyReport
    /\ new_result = EmptyReport
    /\ merged = NoReport("none")

TopoIdle == files = <<>> /\ graph = EmptyGraph /\ sorted_files = <<>>

diff_vars == <<old_code, new_code, changeset>>
topo_vars == <<files, graph, sorted_files>>
filter_vars == <<issues, affected>>
merge_vars == <<cached_result, new_result, merged>>
cycle_vars == <<contracts, inheritance_graph, cycles, chain_root, chain>>

fp_vars == <<false_positives, issue_patterns, learning_data>>

FPIdle ==
    /\ false_positives = NoFalsePositives
    /\ issue_patterns = NoPatterns
    /\ learning_data = NoLearningData

query_vars == <<suppress, filtered, exported, imported, import_raised>>

\* No query asked of the engine, nothing exported or imported.
QueryIdle ==
    /\ suppress = <<>>
    /\ filtered = <<>>
    /\ exported = <<>>
    /\ imported = <<>>
    /\ import_raised = "none"

cache_vars == <<cache, stored, now, got>>

CacheIdle == cache = NoCache /\ stored = <<>> /\ now = 0 /\ got = NoAnswer

race_vars == <<threads, serial>>

RaceIdle == threads = NoThreads /\ serial = NoPatterns

CycleIdle ==
    /\ contracts = <<>> /\ inheritance_graph = EmptyInheritance /\ cycles = <<>>
    /\ chain_root = None /\ chain = <<>>

(***************************************************************************)
(* SpecDiff: one call compute_changeset(old_code, new_code).               *)
(***************************************************************************)
DiffIdle == old_code = <<>> /\ new_code = <<>> /\ changeset = NoChangeSet

InitDiff ==
    /\ pc = "start"
    /\ old_code \in Contents
    /\ new_code \in Contents
    /\ changeset = NoChangeSet
    /\ FilterIdle
    /\ MergeIdle
    /\ TopoIdle
    /\ CycleIdle
    /\ FPIdle
    /\ QueryIdle
    /\ CacheIdle
    /\ RaceIdle

ComputeChangeset ==
    /\ pc = "start"
    /\ changeset' = compute_changeset(old_code, new_code)
    /\ pc' = "done"
    /\ UNCHANGED <<old_code, new_code, cs_in, filter_vars, merge_vars, topo_vars, cycle_vars, fp_vars, query_vars, cache_vars, race_vars>>

NextDiff == ComputeChangeset

SpecDiff == InitDiff /\ [][NextDiff]_vars

(***************************************************************************)
(* SpecFilter: one call filter_affected_issues(issues, cs_in).             *)
(***************************************************************************)
InitFilter ==
    /\ pc = "start"
    /\ issues \in SeqsUpTo(FilterIssues, MaxIssues)
    /\ cs_in \in ChangeSetsIn
    /\ affected = <<>>
    /\ DiffIdle
    /\ MergeIdle
    /\ TopoIdle
    /\ CycleIdle
    /\ FPIdle
    /\ QueryIdle
    /\ CacheIdle
    /\ RaceIdle

FilterAffectedIssues ==
    /\ pc = "start"
    /\ affected' = filter_affected_issues(issues, cs_in)
    /\ pc' = "done"
    /\ UNCHANGED <<issues, cs_in, diff_vars, merge_vars, topo_vars, cycle_vars, fp_vars, query_vars, cache_vars, race_vars>>

NextFilter == FilterAffectedIssues

SpecFilter == InitFilter /\ [][NextFilter]_vars

(***************************************************************************)
(* SpecMerge: one call merge_analysis_results(cached_result, new_result,   *)
(* cs_in).                                                                 *)
(***************************************************************************)
InitMerge ==
    /\ pc = "start"
    /\ cached_result \in Reports
    /\ new_result \in Reports
    /\ cs_in \in ChangeSetsIn
    /\ merged = NoReport("none")
    /\ issues = <<>>
    /\ affected = <<>>
    /\ DiffIdle
    /\ TopoIdle
    /\ CycleIdle
    /\ FPIdle
    /\ QueryIdle
    /\ CacheIdle
    /\ RaceIdle

MergeAnalysisResults ==
    /\ pc = "start"
    /\ LET out == merge_analysis_results(cached_result, new_result, cs_in)
       IN  /\ merged' = out.merged
           /\ new_result' = out.new_result
    /\ pc' = "done"
    /\ UNCHANGED <<cached_result, cs_in, diff_vars, filter_vars, topo_vars, cycle_vars, fp_vars, query_vars, cache_vars, race_vars>>

NextMerge == MergeAnalysisResults

SpecMerge == InitMerge /\ [][NextMerge]_vars

(***************************************************************************)
(* SpecTopo: build_dependency_graph(files), then topological_sort of the   *)
(* graph, as merge_files and analyze_multi_file call them.                 *)
(***************************************************************************)
InitTopo ==
    /\ pc = "start"
    /\ files \in FileDicts
    /\ graph = EmptyGraph
    /\ sorted_files = <<>>
    /\ DiffIdle
    /\ FilterIdle
    /\ MergeIdle
    /\ CycleIdle
    /\ FPIdle
    /\ QueryIdle
    /\ CacheIdle
    /\ RaceIdle

BuildDependencyGraph ==
    /\ pc = "start"
    /\ graph' = build_dependency_graph(files)
    /\ pc' = "built"
    /\ UNCHANGED <<files, sorted_files, cs_in, diff_vars, filter_vars, merge_vars, cycle_vars, fp_vars, query_vars, cache_vars, race_vars>>

TopologicalSort ==
    /\ pc = "built"
    /\ sorted_files' = topological_sort(graph)
    /\ pc' = "done"
    /\ UNCHANGED <<files, graph, cs_in, diff_vars, filter_vars, merge_vars, cycle_vars, fp_vars, query_vars, cache_vars, race_vars>>

NextTopo == BuildDependencyGraph \/ TopologicalSort

SpecTopo == InitTopo /\ [][NextTopo]_vars

(***************************************************************************)
(* SpecCycle: build_inheritance_graph(contracts), then                     *)
(* detect_circular_inheritance of the graph or find_inheritance_chain from *)
(* one contract, as generate_dependency_report calls them.                 *)
(***************************************************************************)
InitCycle ==
    /\ pc = "start"
    /\ \E ns \in ContractOrders : contracts \in ContractLists(ns)
    /\ inheritance_graph = EmptyInheritance
    /\ cycles = <<>>
    /\ chain_root = None
    /\ chain = <<>>
    /\ DiffIdle
    /\ FilterIdle
    /\ MergeIdle
    /\ TopoIdle
    /\ FPIdle
    /\ QueryIdle
    /\ CacheIdle
    /\ RaceIdle

BuildInheritanceGraph ==
    /\ pc = "start"
    /\ inheritance_graph' = build_inheritance_graph(contracts)
    /\ pc' = "built"
    /\ UNCHANGED <<contracts, cycles, chain_root, chain, cs_in, diff_vars,
                   filter_vars, merge_vars, topo_vars, fp_vars, query_vars, cache_vars, race_vars>>

DetectCircularInheritance ==
    /\ pc = "built"
    /\ cycles' = detect_circular_inheritance(inheritance_graph)
    /\ pc' = "done"
    /\ UNCHANGED <<contracts, inheritance_graph, chain_root, chain, cs_in,
                   diff_vars, filter_vars, merge_vars, topo_vars, fp_vars,
                   query_vars, cache_vars, race_vars>>

\* find_inheritance_chain(contract_name, inheritance_graph), as
\* generate_dependency_report calls it on the graph built (line 208).
FindInheritanceChain ==
    /\ pc = "built"
    /\ \E contract_name \in ContractNames :
           /\ chain_root' = contract_name
           /\ chain' = find_inheritance_chain(contract_name, inheritance_graph)
    /\ pc' = "chained"
    /\ UNCHANGED <<contracts, inheritance_graph, cycles, cs_in, diff_vars,
                   filter_vars, merge_vars, topo_vars, fp_vars, query_vars, cache_vars, race_vars>>

NextCycle ==
    BuildInheritanceGraph \/ DetectCircularInheritance \/ FindInheritanceChain

SpecCycle == InitCycle /\ [][NextCycle]_vars

(***************************************************************************)
(* SpecFP: one FalsePositiveHandler from __init__ on, with calls of        *)
(* report_false_positive and verify_false_positive in any order.           *)
(***************************************************************************)
InitFP ==
    /\ pc = "engine"
    /\ false_positives = NoFalsePositives
    /\ issue_patterns = NoPatterns
    /\ learning_data = NoLearningData
    /\ DiffIdle
    /\ FilterIdle
    /\ MergeIdle
    /\ TopoIdle
    /\ CycleIdle
    /\ QueryIdle
    /\ CacheIdle
    /\ RaceIdle

\* The calls of report_false_positive so far: each appends one report.
ReportCount == TotalLen([i \in 1..Len(false_positives.keys) |->
                            false_positives.lists[false_positives.keys[i]]], 1)

RECURSIVE SumOver(_, _)
SumOver(f, S) ==
    IF S = {} THEN 0
    ELSE LET x == CHOOSE y \in S : TRUE IN f[x] + SumOver(f, S \ {x})

\* The successful verify calls so far: each adds one to a count (line 135).
VerifiedCount ==
    SumOver([t \in IssueTypes |-> issue_patterns[t].false_positive_count],
            IssueTypes)

ReportFalsePositive ==
    /\ pc = "engine"
    /\ ReportCount < MaxReports
    /\ \E issue_type \in IssueTypes, contract_hash \in ContractHashes,
          location \in Locations, reason \in Reasons :
          LET after == report_false_positive(false_positives, learning_data,
                           "issue", issue_type, contract_hash, location, reason)
          IN  /\ false_positives' = after.false_positives
              /\ learning_data' = after.learning_data
    /\ UNCHANGED <<pc, issue_patterns, cs_in, diff_vars, filter_vars, merge_vars,
                   topo_vars, cycle_vars, query_vars, cache_vars, race_vars>>

VerifyFalsePositive ==
    /\ pc = "engine"
    /\ VerifiedCount < MaxVerified
    /\ \E issue_type \in IssueTypes, contract_hash \in ContractHashes,
          location \in Locations :
          LET after == verify_false_positive(false_positives, issue_patterns,
                           issue_type, contract_hash, location)
          IN  /\ false_positives' = after.false_positives
              /\ issue_patterns' = after.issue_patterns
    /\ UNCHANGED <<pc, learning_data, cs_in, diff_vars, filter_vars, merge_vars,
                   topo_vars, cycle_vars, query_vars, cache_vars, race_vars>>

NextFP == ReportFalsePositive \/ VerifyFalsePositive

SpecFP == InitFP /\ [][NextFP]_vars

(***************************************************************************)
(* SpecSuppress: the engine of SpecFP, asked should_suppress_issue at some *)
(* moment; suppress holds the answer to every query at that moment.        *)
(***************************************************************************)
ShouldSuppressIssue ==
    /\ pc = "engine"
    /\ suppress' = [q \in SuppressQueries |->
                       should_suppress_issue(false_positives, issue_patterns,
                           q.issue_type, q.contract_hash, q.location, q.threshold)]
    /\ pc' = "asked"
    /\ UNCHANGED <<filtered, exported, imported, import_raised, cs_in, diff_vars, filter_vars,
                   merge_vars, topo_vars, cycle_vars, fp_vars, cache_vars, race_vars>>

NextSuppress == ReportFalsePositive \/ VerifyFalsePositive \/ ShouldSuppressIssue

SpecSuppress == InitFP /\ [][NextSuppress]_vars

(***************************************************************************)
(* SpecFilterFP: the engine of SpecFP, asked filter_false_positives at     *)
(* some moment; filtered holds the outcome of every call at that moment.   *)
(***************************************************************************)
FilterFalsePositives ==
    /\ pc = "engine"
    /\ filtered' = [c \in FilterCalls |->
                       filter_false_positives(false_positives, issue_patterns,
                                              c.issues, c.contract_hash)]
    /\ pc' = "filtered"
    /\ UNCHANGED <<suppress, exported, imported, import_raised, cs_in, diff_vars, filter_vars,
                   merge_vars, topo_vars, cycle_vars, fp_vars, cache_vars, race_vars>>

NextFilterFP == ReportFalsePositive \/ VerifyFalsePositive \/ FilterFalsePositives

SpecFilterFP == InitFP /\ [][NextFilterFP]_vars

(***************************************************************************)
(* SpecExport: the engine of SpecFP, exported at some moment with          *)
(* export_false_positives; the document is then imported into a fresh      *)
(* engine with import_false_positives.                                     *)
(***************************************************************************)
ExportFalsePositives ==
    /\ pc = "engine"
    /\ exported' = export_false_positives(false_positives, issue_patterns)
    /\ pc' = "exported"
    /\ UNCHANGED <<suppress, filtered, imported, import_raised, cs_in, diff_vars, filter_vars,
                   merge_vars, topo_vars, cycle_vars, fp_vars, cache_vars, race_vars>>

ImportFalsePositives ==
    /\ pc = "exported"
    /\ imported' = import_false_positives(NoFalsePositives, NoPatterns,
                                           JsonText(exported))
    /\ pc' = "imported"
    /\ UNCHANGED <<suppress, filtered, exported, import_raised, cs_in, diff_vars, filter_vars,
                   merge_vars, topo_vars, cycle_vars, fp_vars, cache_vars, race_vars>>

NextExport ==
    \/ ReportFalsePositive
    \/ VerifyFalsePositive
    \/ ExportFalsePositives
    \/ ImportFalsePositives

SpecExport == InitFP /\ [][NextExport]_vars

(***************************************************************************)
(* SpecImport: the engine of SpecFP, given a text to import at some moment *)
(* with import_false_positives; the engine itself takes the import.        *)
(***************************************************************************)
ImportIntoEngine ==
    /\ pc = "engine"
    /\ \E json_data \in ImportTexts :
           LET after == import_false_positives(false_positives, issue_patterns,
                                               json_data)
           IN  /\ false_positives' = after.false_positives
               /\ issue_patterns' = after.issue_patterns
               /\ import_raised' = after.raised
    /\ pc' = "imported"
    /\ UNCHANGED <<learning_data, suppress, filtered, exported, imported, cs_in,
                   diff_vars, filter_vars, merge_vars, topo_vars, cycle_vars, cache_vars, race_vars>>

NextImport == ReportFalsePositive \/ VerifyFalsePositive \/ ImportIntoEngine

SpecImport == InitFP /\ [][NextImport]_vars

(***************************************************************************)
(* SpecCache: cache_analysis and get_cached_analysis called on one         *)
(* analyzer while time passes; a get ends the run.                         *)
(***************************************************************************)
InitCache ==
    /\ pc = "cache"
    /\ cache = NoCache
    /\ stored = <<>>
    /\ now = 0
    /\ got = NoAnswer
    /\ DiffIdle
    /\ FilterIdle
    /\ MergeIdle
    /\ TopoIdle
    /\ CycleIdle
    /\ FPIdle
    /\ QueryIdle
    /\ RaceIdle

CacheAnalysis ==
    /\ pc = "cache"
    /\ Len(stored) < MaxStores
    /\ \E contract_hash \in Fingerprints, analysis_result \in AnalysisResults :
           /\ cache' = cache_analysis(cache, contract_hash, analysis_result)
           /\ stored' = Append(stored, [contract_hash |-> contract_hash,
                                        analysis_result |-> analysis_result,
                                        at |-> now])
    /\ UNCHANGED <<pc, now, got, cs_in, diff_vars, filter_vars, merge_vars,
                   topo_vars, cycle_vars, fp_vars, query_vars, race_vars>>

GetCachedAnalysis ==
    /\ pc = "cache"
    /\ \E contract_hash \in Fingerprints :
           got' = [contract_hash |-> contract_hash,
                   result |-> get_cached_analysis(cache, contract_hash)]
    /\ pc' = "got"
    /\ UNCHANGED <<cache, stored, now, cs_in, diff_vars, filter_vars, merge_vars,
                   topo_vars, cycle_vars, fp_vars, query_vars, race_vars>>

\* More than the retention window (24 hours) passes.  No line of the
\* analyzer reads a clock.
RetentionWindowPasses ==
    /\ pc = "cache"
    /\ now < MaxClock
    /\ now' = now + 1
    /\ UNCHANGED <<pc, cache, stored, got, cs_in, diff_vars, filter_vars,
                   merge_vars, topo_vars, cycle_vars, fp_vars, query_vars,
                   race_vars>>

NextCache == CacheAnalysis \/ GetCachedAnalysis \/ RetentionWindowPasses

SpecCache == InitCache /\ [][NextCache]_vars

(***************************************************************************)
(* SpecRace: the callers of ThreadIds each call verify_false_positive once *)
(* on one engine, their steps interleaved.                                 *)
(***************************************************************************)
InitRace ==
    /\ pc = "engine"
    /\ \E first_reason \in Reasons, second_reason \in Reasons, seeded \in BOOLEAN :
           LET engine == RaceEngine(first_reason, second_reason, seeded)
           IN  /\ false_positives = engine.false_positives
               /\ issue_patterns = engine.issue_patterns
               /\ learning_data = engine.learning_data
               /\ serial = engine.issue_patterns
    /\ threads = NoThreads
    /\ DiffIdle
    /\ FilterIdle
    /\ MergeIdle
    /\ TopoIdle
    /\ CycleIdle
    /\ QueryIdle
    /\ CacheIdle

\* What no step of a caller touches.
RaceFrame ==
    UNCHANGED <<pc, learning_data, cs_in, diff_vars, filter_vars, merge_vars,
                topo_vars, cycle_vars, query_vars, cache_vars>>

\* Lines 113-121: the key is looked up and the first matching report is
\* marked; without one the call returns False (line 125).
VerifyBegin(t) ==
    /\ threads[t].pc = "idle"
    /\ \E issue_type \in IssueTypes, contract_hash \in ContractHashes,
          location \in Locations :
          LET key == KeyOf(issue_type, contract_hash)
              i == IF HasKey(false_positives, key)
                   THEN FirstMatch(false_positives.lists[key], location)
                   ELSE 0
              report == false_positives.lists[key][i]
          IN  IF i = 0
              THEN /\ threads' = [threads EXCEPT ![t].pc = "done"]
                   /\ UNCHANGED <<false_positives, serial>>
              ELSE /\ false_positives' =
                          [false_positives EXCEPT !.lists[key][i].verified = TRUE]
                   /\ threads' = [threads EXCEPT ![t] =
                          [@ EXCEPT !.pc = "check",
                                    !.issue_type = report.issue_type,
                                    !.reason = report.reason,
                                    !.location_type = report.location.type]]
                   /\ serial' = update_learning_pattern(serial, report)
    /\ UNCHANGED issue_patterns
    /\ RaceFrame

\* Line 129: if report.issue_type not in self.issue_patterns.
PatternCheck(t) ==
    /\ threads[t].pc = "check"
    /\ threads' = [threads EXCEPT ![t].pc =
                      IF issue_patterns[threads[t].issue_type].present
                      THEN "load" ELSE "create"]
    /\ UNCHANGED <<false_positives, issue_patterns, serial>>
    /\ RaceFrame

\* Lines 130-133: the type's entry is set to a new dict; a caller that holds
\* the dict it replaces now holds a dict the engine no longer has.
PatternCreate(t) ==
    /\ threads[t].pc = "create"
    /\ issue_patterns' =
           [issue_patterns EXCEPT ![threads[t].issue_type] = NewEntry]
    /\ threads' = [u \in ThreadIds |->
                      IF u = t THEN [threads[u] EXCEPT !.pc = "load"]
                      ELSE [threads[u] EXCEPT !.replaced = TRUE]]
    /\ UNCHANGED <<false_positives, serial>>
    /\ RaceFrame

\* Line 135, the read of "+= 1": the entry is looked up and its count read.
CountLoad(t) ==
    /\ threads[t].pc = "load"
    /\ threads' = [threads EXCEPT ![t] =
           [@ EXCEPT !.pc = "store",
                     !.local = issue_patterns[threads[t].issue_type]
                                   .false_positive_count,
                     !.replaced = FALSE]]
    /\ UNCHANGED <<false_positives, issue_patterns, serial>>
    /\ RaceFrame

\* Line 135, the write of "+= 1", into the dict looked up by the read.
CountStore(t) ==
    /\ threads[t].pc = "store"
    /\ issue_patterns' =
           IF threads[t].replaced THEN issue_patterns
           ELSE [issue_patterns EXCEPT
                    ![threads[t].issue_type].false_positive_count =
                        threads[t].local + 1]
    /\ threads' = [threads EXCEPT ![t].pc = "scan"]
    /\ UNCHANGED <<false_positives, serial>>
    /\ RaceFrame

\* Lines 144-150: the entry's patterns are looked up and searched for the
\* report's reason.
PatternScan(t) ==
    /\ threads[t].pc = "scan"
    /\ LET existing == ExistingPattern(
                           issue_patterns[threads[t].issue_type].patterns,
                           threads[t].reason)
       IN  threads' = [threads EXCEPT ![t] =
               [@ EXCEPT !.pc = IF existing # 0 THEN "bump" ELSE "append",
                         !.existing = existing,
                         !.replaced = FALSE]]
    /\ UNCHANGED <<false_positives, issue_patterns, serial>>
    /\ RaceFrame

\* Line 151, the read of existing_pattern["count"] += 1 (what is read from
\* a replaced dict never reaches the engine).
PatternLoad(t) ==
    /\ threads[t].pc = "bump"
    /\ threads' = [threads EXCEPT ![t] =
           [@ EXCEPT !.pc = "bumped",
                     !.local =
                         IF threads[t].replaced THEN 0
                         ELSE issue_patterns[threads[t].issue_type]
                                  .patterns[threads[t].existing].count]]
    /\ UNCHANGED <<false_positives, issue_patterns, serial>>
    /\ RaceFrame

\* Line 151, the write of existing_pattern["count"] += 1; the call then
\* returns True (line 124).
PatternStore(t) ==
    /\ threads[t].pc = "bumped"
    /\ issue_patterns' =
           IF threads[t].replaced THEN issue_patterns
           ELSE [issue_patterns EXCEPT
                    ![threads[t].issue_type].patterns[threads[t].existing].count =
                        threads[t].local + 1]
    /\ threads' = [threads EXCEPT ![t].pc = "done"]
    /\ UNCHANGED <<false_positives, serial>>
    /\ RaceFrame

\* Lines 153-154: the entry's patterns are looked up again and the new
\* pattern appended; the call then returns True (line 124).
PatternAppend(t) ==
    /\ threads[t].pc = "append"
    /\ issue_patterns' =
           [issue_patterns EXCEPT ![threads[t].issue_type].patterns =
               Append(@, NewPattern(threads[t]))]
    /\ threads' = [threads EXCEPT ![t].pc = "done"]
    /\ UNCHANGED <<false_positives, serial>>
    /\ RaceFrame

NextRace ==
    \E t \in ThreadIds :
        \/ VerifyBegin(t)
        \/ PatternCheck(t)
        \/ PatternCreate(t)
        \/ CountLoad(t)
        \/ CountStore(t)
        \/ PatternScan(t)
        \/ PatternLoad(t)
        \/ PatternStore(t)
        \/ PatternAppend(t)

SpecRace == InitRace /\ [][NextRace]_vars

(***************************************************************************)
(* Properties of compute_changeset (checked under SpecDiff).               *)
(***************************************************************************)
OldLines == SplitLines(old_code)
NewLines == SplitLines(new_code)

ChangedLines(cs) == cs.added_lines \cup cs.modified_lines \cup cs.removed_lines

\* The unchanged regions (their indices) that hold line ln.
RegionsHolding(cs, ln) ==
    {k \in 1..Len(cs.unchanged_regions) :
        /\ cs.unchanged_regions[k][1] <= ln
        /\ ln <= cs.unchanged_regions[k][2]}

\* In how many of added_lines, modified_lines and the unchanged regions ln is.
TimesAccounted(cs, ln) ==
    (IF ln \in cs.added_lines THEN 1 ELSE 0)
    + (IF ln \in cs.modified_lines THEN 1 ELSE 0)
    + Cardinality(RegionsHolding(cs, ln))

RegionsDisjoint(cs) ==
    \A j, k \in 1..Len(cs.unchanged_regions) :
        j # k =>
            \/ cs.unchanged_regions[j][2] < cs.unchanged_regions[k][1]
            \/ cs.unchanged_regions[k][2] < cs.unchanged_regions[j][1]

RegionsAvoidChanged(cs) ==
    \A ln \in ChangedLines(cs) : RegionsHolding(cs, ln) = {}

\* C4: every line number 1..len(new) of the new revision is in exactly one
\* of added_lines, modified_lines, or one unchanged region.
C4_DiffCoverage ==
    pc = "done" =>
        \A ln \in 1..Len(NewLines) : TimesAccounted(changeset, ln) = 1

\* C4 witness: a call whose new revision has an added line, a modified line
\* and an unchanged region, each line accounted for once.
C4_Witness ==
    /\ pc = "done"
    /\ changeset.added_lines # {}
    /\ changeset.modified_lines # {}
    /\ Len(changeset.unchanged_regions) >= 1
    /\ \A ln \in 1..Len(NewLines) : TimesAccounted(changeset, ln) = 1

\* C5 (as claimed): added_lines, modified_lines and removed_lines are
\* pairwise disjoint, and the unchanged regions overlap neither each other
\* nor any changed line.
C5_AllDisjoint ==
    pc = "done" =>
        /\ changeset.added_lines \cap changeset.modified_lines = {}
        /\ changeset.added_lines \cap changeset.removed_lines = {}
        /\ changeset.modified_lines \cap changeset.removed_lines = {}
        /\ RegionsDisjoint(changeset)
        /\ RegionsAvoidChanged(changeset)

\* C6: compute_changeset(x, x) returns empty added, modified and removed
\* sets and exactly one unchanged region (1, n), n the number of lines of x.
C6_DiffIdentity ==
    (pc = "done" /\ old_code = new_code) =>
        /\ changeset.added_lines = {}
        /\ changeset.modified_lines = {}
        /\ changeset.removed_lines = {}
        /\ changeset.unchanged_regions = <<<<1, Len(NewLines)>>>>

\* C6 witness: a call on identical contents of at least three lines, two of
\* them the same line, that returned the one region (1, n).
C6_Witness ==
    /\ pc = "done"
    /\ old_code = new_code
    /\ Len(NewLines) >= 3
    /\ \E i, j \in 1..Len(NewLines) : i # j /\ NewLines[i] = NewLines[j]
    /\ changeset.unchanged_regions = <<<<1, Len(NewLines)>>>>

\* C7 (as claimed): with empty old content every line number of a non-empty
\* new content is in added_lines, none in modified_lines or a region.
C7_EmptyOldAllAdded ==
    (pc = "done" /\ old_code = <<>> /\ new_code # <<>>) =>
        /\ changeset.added_lines = 1..Len(NewLines)
        /\ changeset.modified_lines = {}
        /\ changeset.unchanged_regions = <<>>

\* C8 (as claimed): every new line whose digest occurs nowhere in the old
\* line sequence is in added_lines and not in modified_lines.
C8_NewDigestIsAdded ==
    pc = "done" =>
        \A ln \in 1..Len(NewLines) :
            ~InHashes(Md5(NewLines[ln]), LineHashes(OldLines)) =>
                /\ ln \in changeset.added_lines
                /\ ln \notin changeset.modified_lines

(***************************************************************************)
(* Properties of filter_affected_issues (checked under SpecFilter).        *)
(***************************************************************************)
\* C9: filter_affected_issues returns every issue whose location line is a
\* member of added_lines, modified_lines or removed_lines.
C9_FilterCompleteness ==
    pc = "done" =>
        \A i \in 1..Len(issues) :
            issues[i].line \in ChangedLines(cs_in) => InSeq(issues[i], affected)

\* C9 witness: a call that returned an issue on a changed line, the issue
\* holding a lineNumber key too, and that left another issue out.
C9_Witness ==
    /\ pc = "done"
    /\ \E i \in 1..Len(issues) :
        /\ issues[i].line \in ChangedLines(cs_in)
        /\ issues[i].lineNumber # NoLine
        /\ InSeq(issues[i], affected)
    /\ Len(affected) < Len(issues)

(***************************************************************************)
(* Properties of merge_analysis_results (checked under SpecMerge).         *)
(***************************************************************************)
\* A cached issue that is still valid: it has a location line that is
\* neither a changed line nor within the window of one.
StillValid(issue, cs) ==
    /\ issue.line # NoLine
    /\ issue.line \notin ChangedLines(cs)
    /\ \A c \in ChangedLines(cs) : Abs(issue.line - c) > ProximityWindow

CarriedOver(cached_list, fresh_list, merged_list, cs) ==
    \A i \in 1..Len(cached_list) :
        /\ StillValid(cached_list[i], cs) => InSeq(cached_list[i], merged_list)
        /\ (~StillValid(cached_list[i], cs) /\ ~InSeq(cached_list[i], fresh_list))
               => ~InSeq(cached_list[i], merged_list)

\* C1 (as claimed): the report merge_analysis_results returns holds, in the
\* corresponding list, every cached issue that is still valid, and holds no
\* cached issue that the changeset affects (unless the fresh report has it).
C1_ValidCachedCarriedOver ==
    (pc = "done" /\ merged.raised = "none") =>
        /\ CarriedOver(cached_result.vulnerabilities, new_result.vulnerabilities,
                       merged.vulnerabilities, cs_in)
        /\ CarriedOver(cached_result.gasOptimizations, new_result.gasOptimizations,
                       merged.gasOptimizations, cs_in)
        /\ CarriedOver(cached_result.codeQuality, new_result.codeQuality,
                       merged.codeQuality, cs_in)

CountWhere(xs, severity) ==
    Cardinality({i \in 1..Len(xs) : xs[i].severity = severity})

\* C2 (as claimed): for every cached report, fresh report and changeset,
\* merge_analysis_results returns a report whose summary holds the literal
\* counts of its merged lists.
C2_SummaryIsLiteralCount ==
    pc = "done" =>
        /\ merged.raised = "none"
        /\ merged.summary.totalVulnerabilities = Len(merged.vulnerabilities)
        /\ merged.summary.highSeverity = CountWhere(merged.vulnerabilities, "HIGH")
        /\ merged.summary.mediumSeverity = CountWhere(merged.vulnerabilities, "MEDIUM")
        /\ merged.summary.lowSeverity = CountWhere(merged.vulnerabilities, "LOW")
        /\ merged.summary.gasOptimizations = Len(merged.gasOptimizations)
        /\ merged.summary.codeQualityIssues = Len(merged.codeQuality)

SameIssue(a, b) ==
    a.type = b.type /\ a.line = b.line /\ a.description = b.description

\* C3 (as claimed): when the cached and the fresh vulnerability lists are
\* non-empty, merge_analysis_results completes, no two issues of the merged
\* list have the same type, location and description, and every issue of
\* the fresh list is in the merged list.
C3_MergeCompletesAndDedups ==
    (/\ pc = "done"
     /\ cached_result.vulnerabilities # <<>>
     /\ new_result.vulnerabilities # <<>>) =>
        /\ merged.raised = "none"
        /\ \A i, j \in 1..Len(merged.vulnerabilities) :
               i # j => ~SameIssue(merged.vulnerabilities[i],
                                   merged.vulnerabilities[j])
        /\ \A i \in 1..Len(new_result.vulnerabilities) :
               InSeq(new_result.vulnerabilities[i], merged.vulnerabilities)

\* C29 (as claimed): merge_analysis_results leaves its arguments as they
\* were: the cached report, the fresh report (metadata included) and the
\* changeset after the call equal what they were before it.
C29_ArgumentsUnchanged ==
    [][/\ cached_result' = cached_result
       /\ new_result' = new_result
       /\ cs_in' = cs_in]_vars

(***************************************************************************)
(* Properties of topological_sort (checked under SpecTopo).                *)
(***************************************************************************)
\* The edges u -> v of g: u imports (depends on) v.
Edges(g) ==
    {e \in FileNames \X FileNames :
        InSeq(e[1], g.keys) /\ InSeq(e[2], g.adj[e[1]])}

\* The nodes reachable from n in at most k steps along edges.
RECURSIVE ReachableIn(_, _, _)
ReachableIn(g, n, k) ==
    IF k = 0 THEN {n}
    ELSE LET prev == ReachableIn(g, n, k - 1)
         IN  prev \cup {e[2] : e \in {d \in Edges(g) : d[1] \in prev}}

Acyclic(g) ==
    \A e \in Edges(g) : e[1] \notin ReachableIn(g, e[2], Cardinality(FileNames))

Position(xs, x) == CHOOSE i \in 1..Len(xs) : xs[i] = x

\* C10 (as claimed): for an acyclic graph the list topological_sort returns
\* is dependency-first: for every edge u -> v, u comes after v.
C10_DependencyFirst ==
    (pc = "done" /\ Acyclic(graph)) =>
        \A e \in Edges(graph) :
            /\ InSeq(e[1], sorted_files)
            /\ InSeq(e[2], sorted_files)
            /\ Position(sorted_files, e[1]) > Position(sorted_files, e[2])


\* The nodes of g: its keys and every name in one of its lists.
GraphNodes(g) == {n \in FileNames : InSeq(n, g.keys)} \cup {e[2] : e \in Edges(g)}

\* The units analysed: the names of the files given.
Units == {files[i].name : i \in 1..Len(files)}

Occurrences(xs, x) == Cardinality({i \in 1..Len(xs) : xs[i] = x})

\* C11 (as claimed): whatever the graph, cyclic or not, the list
\* topological_sort returns is a full ordering: every key, every edge target
\* and every unit that imports nothing appears in it exactly once.
C11_FullOrdering ==
    pc = "done" =>
        \A n \in GraphNodes(graph) \cup Units : Occurrences(sorted_files, n) = 1

(***************************************************************************)
(* Properties of detect_circular_inheritance (checked under SpecCycle).    *)
(***************************************************************************)
\* The edges child -> parent of an inheritance graph.
InheritanceEdges(g) ==
    {e \in ContractNames \X ContractNames :
        InSeq(e[1], g.keys) /\ InSeq(e[2], g.adj[e[1]])}

\* The contracts reachable from n in at most k steps along edges.
RECURSIVE Ancestors(_, _, _)
Ancestors(g, n, k) ==
    IF k = 0 THEN {n}
    ELSE LET prev == Ancestors(g, n, k - 1)
         IN  prev \cup {e[2] : e \in {d \in InheritanceEdges(g) : d[1] \in prev}}

HasDirectedCycle(g) ==
    \E e \in InheritanceEdges(g) :
        e[1] \in Ancestors(g, e[2], Cardinality(ContractNames))

\* c is a closed path of real edges: first and last element are the same.
ClosedPath(g, c) ==
    /\ Len(c) >= 2
    /\ c[1] = c[Len(c)]
    /\ \A j \in 1..(Len(c) - 1) : <<c[j], c[j + 1]>> \in InheritanceEdges(g)

\* C12: detect_circular_inheritance returns the empty list exactly when the
\* graph has no directed cycle, and every cycle it returns is a closed path
\* of edges of the graph whose first and last element are the same.
C12_CyclesFoundAndReal ==
    pc = "done" =>
        /\ (cycles = <<>>) <=> ~HasDirectedCycle(inheritance_graph)
        /\ \A i \in 1..Len(cycles) : ClosedPath(inheritance_graph, cycles[i])

\* A cycle of two contracts found below the first key searched.
C12_Witness ==
    /\ pc = "done"
    /\ \E i \in 1..Len(cycles) :
           /\ Len(cycles[i]) = 3
           /\ cycles[i][1] # inheritance_graph.keys[1]

\* The nodes of a closed path, the repeated last one left out.
CycleNodes(c) == {c[j] : j \in 1..(Len(c) - 1)}

\* ns is a simple directed cycle: distinct contracts, an edge from each to
\* the next and from the last to the first.
SimpleCycle(g, ns) ==
    /\ ns # <<>>
    /\ IsInjective(ns)
    /\ \A j \in 1..Len(ns) :
           <<ns[j], ns[(j % Len(ns)) + 1]>> \in InheritanceEdges(g)

\* C28 (as claimed): for every simple directed cycle of the graph, some
\* cycle that detect_circular_inheritance returns lists exactly the
\* contracts of that cycle.
C28_EveryCycleReported ==
    pc = "done" =>
        \A ns \in ContractOrders :
            SimpleCycle(inheritance_graph, ns) =>
                \E i \in 1..Len(cycles) :
                    CycleNodes(cycles[i]) = {ns[j] : j \in 1..Len(ns)}

\* The edge that closes a closed path: from its last contract but one back
\* to its first.
ClosingEdge(c) == <<c[Len(c) - 1], c[Len(c)]>>

\* C28 (amended): every cycle returned is a simple cycle of the graph, and
\* for every simple directed cycle of the graph some cycle returned closes
\* along one of its edges.
C28_EveryCycleMeetsAReported ==
    pc = "done" =>
        /\ \A i \in 1..Len(cycles) :
               /\ ClosedPath(inheritance_graph, cycles[i])
               /\ IsInjective(SubSeq(cycles[i], 1, Len(cycles[i]) - 1))
        /\ \A ns \in ContractOrders :
               SimpleCycle(inheritance_graph, ns) =>
                   \E i \in 1..Len(cycles), j \in 1..Len(ns) :
                       ClosingEdge(cycles[i]) = <<ns[j], ns[(j % Len(ns)) + 1]>>

\* A graph with a simple cycle that no cycle returned lists, its closing
\* edge being that of a longer cycle returned.
C28_Witness ==
    /\ pc = "done"
    /\ cycles # <<>>
    /\ \E ns \in ContractOrders :
           /\ SimpleCycle(inheritance_graph, ns)
           /\ \A i \in 1..Len(cycles) :
                  CycleNodes(cycles[i]) # {ns[j] : j \in 1..Len(ns)}

\* The pre-order of an iterative depth-first walk: the stack holds the
\* contracts still to enter, the next one on top (first).
RECURSIVE PreOrder(_, _, _)
PreOrder(g, stack, walked) ==
    IF stack = <<>> THEN walked
    ELSE IF InSeq(stack[1], walked) THEN PreOrder(g, Tail(stack), walked)
    ELSE PreOrder(g, Neighbors(g, stack[1]) \o Tail(stack),
                  Append(walked, stack[1]))

\* C27: the chain starts with the contract given, holds no contract twice,
\* holds exactly the contracts reachable from it along parent edges, and is
\* in depth-first pre-order.
C27_ChainIsPreOrderOfReachable ==
    pc = "chained" =>
        /\ chain # <<>> /\ chain[1] = chain_root
        /\ IsInjective(chain)
        /\ {chain[j] : j \in 1..Len(chain)}
             = Ancestors(inheritance_graph, chain_root,
                         Cardinality(ContractNames))
        /\ chain = PreOrder(inheritance_graph, <<chain_root>>, <<>>)

\* A chain of three contracts walked through a cycle back to its root.
C27_Witness ==
    /\ pc = "chained"
    /\ Len(chain) = Cardinality(ContractNames)
    /\ <<chain[Len(chain)], chain_root>> \in InheritanceEdges(inheritance_graph)

(***************************************************************************)
(* Properties of the false-positive engine.                                *)
(***************************************************************************)
\* The reports the engine holds, each as its key and its place in the list.
AllReports ==
    UNION {{<<false_positives.keys[k], i>> :
               i \in 1..Len(false_positives.lists[false_positives.keys[k]])} :
           k \in 1..Len(false_positives.keys)}

ReportAt(x) == false_positives.lists[x[1]][x[2]]

\* The verified reports of an issue type.
VerifiedReports(issue_type) ==
    {x \in AllReports :
        ReportAt(x).verified /\ ReportAt(x).issue_type = issue_type}

\* A verified report of the query's type and unit at the query's line.
VerifiedAtLine(q) ==
    \E x \in VerifiedReports(q.issue_type) :
        /\ ReportAt(x).contract_hash = q.contract_hash
        /\ ReportAt(x).location.line = q.location.line

\* C13 (as claimed): with exactly 2 verified reports of a type, all of one
\* reason and location kind, a query of that type and kind at a line of no
\* verified report is answered false at the default threshold; with exactly
\* 3 such verified reports it is answered true.
C13_TwoNoThreeYes ==
    pc = "asked" =>
        \A q \in SuppressQueries :
            LET V == VerifiedReports(q.issue_type)
            IN  (/\ q.threshold = DefaultThreshold
                 /\ \A x \in V : ReportAt(x).location.line # q.location.line
                 /\ \E reason \in Reasons :
                        \A x \in V : /\ ReportAt(x).reason = reason
                                     /\ ReportAt(x).location.type = q.location.type)
                => /\ Cardinality(V) = 2 => ~suppress[q]
                   /\ Cardinality(V) = 3 => suppress[q]

\* C14 (as claimed): a query matching no verified report of its own unit
\* and line is answered true only if at least 3 distinct reports of its
\* type are verified.
C14_ThreeDistinctReports ==
    pc = "asked" =>
        \A q \in SuppressQueries :
            (suppress[q] /\ ~VerifiedAtLine(q)) =>
                Cardinality(VerifiedReports(q.issue_type)) >= MinReports

\* C19: a query with a verified report of its type and unit at its line is
\* answered true whatever the threshold and the pattern counts; where the
\* pattern counts are too low to suppress, a true answer is always due to
\* such a verified report, never to an unverified one.
C19_DirectSuppression ==
    pc = "asked" =>
        \A q \in SuppressQueries :
            /\ VerifiedAtLine(q) => suppress[q]
            /\ (/\ suppress[q]
                /\ issue_patterns[q.issue_type].false_positive_count < MinReports)
               => VerifiedAtLine(q)

\* A query at threshold 1.0 answered true through a verified report while
\* the type has 3 verifications and no pattern reaches that confidence.
C19_Witness ==
    /\ pc = "asked"
    /\ \E q \in SuppressQueries :
           /\ q.threshold = 10
           /\ VerifiedAtLine(q)
           /\ suppress[q]
           /\ issue_patterns[q.issue_type].false_positive_count >= MinReports
           /\ \A i \in 1..Len(issue_patterns[q.issue_type].patterns) :
                  issue_patterns[q.issue_type].patterns[i].count
                      < issue_patterns[q.issue_type].false_positive_count

\* The reports of a key whose line is within LineTolerance of line but is
\* not line itself.
NearbyReports(key, line) ==
    {i \in 1..Len(false_positives.lists[key]) :
        LET d == Abs(false_positives.lists[key][i].location.line - line)
        IN  d >= 1 /\ d <= LineTolerance}

\* C16 (as claimed): when a key holds a report whose line differs from the
\* given one by 1 to 5 and none at the given line, verify_false_positive
\* returns true and marks such a report verified.
C16_NearbyLineVerifies ==
    \A key \in FPKeys, location \in Locations :
        (/\ HasKey(false_positives, key)
         /\ NearbyReports(key, location.line) # {}
         /\ \A i \in 1..Len(false_positives.lists[key]) :
                false_positives.lists[key][i].location.line # location.line)
        => LET after == verify_false_positive(false_positives, issue_patterns,
                                              key[1], key[2], location)
           IN  /\ after.ret
               /\ \E i \in NearbyReports(key, location.line) :
                      after.false_positives.lists[key][i].verified

\* C30 (as claimed): whenever a key holds an unverified report at a line,
\* verify_false_positive with that key and line marks a report verified
\* that was unverified, also when an earlier report at that line of the key
\* is already verified.
C30_UnverifiedGetsVerified ==
    \A key \in FPKeys, location \in Locations :
        (/\ HasKey(false_positives, key)
         /\ \E i \in 1..Len(false_positives.lists[key]) :
                /\ false_positives.lists[key][i].location.line = location.line
                /\ ~false_positives.lists[key][i].verified)
        => LET after == verify_false_positive(false_positives, issue_patterns,
                                              key[1], key[2], location)
           IN  \E i \in 1..Len(false_positives.lists[key]) :
                   /\ ~false_positives.lists[key][i].verified
                   /\ after.false_positives.lists[key][i].verified

\* C17 (as claimed): for every issue type the false_positive_count of its
\* learning pattern is the number of its reports whose verified flag is
\* true (0 where the type has no pattern yet).
C17_CountIsVerifiedReports ==
    \A t \in IssueTypes :
        issue_patterns[t].false_positive_count = Cardinality(VerifiedReports(t))

\* C18 (as claimed): every verified report is folded into the pattern entry
\* of its own (reason, location kind) pair, so two verified reports of one
\* reason and different kinds have two entries.
C18_EntryPerReasonAndKind ==
    \A t \in IssueTypes :
        \A x \in VerifiedReports(t) :
            \E i \in 1..Len(issue_patterns[t].patterns) :
                /\ issue_patterns[t].patterns[i].reason = ReportAt(x).reason
                /\ issue_patterns[t].patterns[i].location_type
                       = ReportAt(x).location.type

(***************************************************************************)
(* Properties of filter_false_positives (checked under SpecFilterFP).      *)
(***************************************************************************)
\* What should_suppress_issue answers for an issue of unit contract_hash.
Suppressed(issue, contract_hash) ==
    should_suppress_issue(false_positives, issue_patterns, IssueTypeOf(issue),
        contract_hash, IssueLocation(issue), DefaultThreshold)

Flagged(issue) ==
    [issue EXCEPT !.suppressed = TRUE,
                  !.suppression_reason = "Known false positive"]

C20_ExportImportRoundTrip ==
    pc = "imported" =>
        /\ imported.false_positives = false_positives
        /\ imported.issue_patterns = issue_patterns
        /\ \A q \in SuppressQueries :
               should_suppress_issue(imported.false_positives,
                   imported.issue_patterns, q.issue_type, q.contract_hash,
                   q.location, q.threshold)
               = should_suppress_issue(false_positives, issue_patterns,
                   q.issue_type, q.contract_hash, q.location, q.threshold)

\* An engine with two keys, a verified report, an unverified one and a
\* learning pattern, exported and imported.
C20_Witness ==
    /\ pc = "imported"
    /\ Len(false_positives.keys) = 2
    /\ \E x, y \in AllReports : ReportAt(x).verified /\ ~ReportAt(y).verified
    /\ \E t \in IssueTypes : issue_patterns[t].patterns # <<>>
    /\ Len(imported.false_positives.keys) = 2

(***************************************************************************)
(* Properties of import into a live engine (checked under SpecImport).     *)
(***************************************************************************)
\* C21 (as claimed): an import_false_positives that raises leaves the
\* engine's reports and learning patterns exactly as they were before it.
C21_FailedImportChangesNothing ==
    [][(pc = "engine" /\ pc' = "imported" /\ import_raised' # "none")
          => /\ false_positives' = false_positives
             /\ issue_patterns' = issue_patterns]_vars

\* C22 (as claimed): no operation of the engine removes a report or resets
\* a verified flag: after every step the list of every key holds the
\* reports it held, in their places, and a verified report is still
\* verified.
C22_ReportsOnlyGrow ==
    [][\A key \in FPKeys :
           /\ Len(false_positives'.lists[key]) >= Len(false_positives.lists[key])
           /\ \A i \in 1..Len(false_positives.lists[key]) :
                  /\ [false_positives'.lists[key][i] EXCEPT !.verified = FALSE]
                       = [false_positives.lists[key][i] EXCEPT !.verified = FALSE]
                  /\ false_positives.lists[key][i].verified
                       => false_positives'.lists[key][i].verified]_vars

(***************************************************************************)
(* More properties of filter_affected_issues (checked under SpecFilter).   *)
(***************************************************************************)
\* The line of an issue: its location line, else its lineNumber, else none.
LineOf(issue) == IF issue.line # NoLine THEN issue.line ELSE issue.lineNumber

\* The places of the issues given that are affected: no line, or a line at
\* most ProximityWindow away from a changed line (0 away: a changed line).
AffectedPlaces ==
    {i \in 1..Len(issues) :
        \/ LineOf(issues[i]) = NoLine
        \/ \E c \in ChangedLines(cs_in) :
               /\ LineOf(issues[i]) - c <= ProximityWindow
               /\ c - LineOf(issues[i]) <= ProximityWindow}

\* The k-th smallest element of a set of numbers.
KthOf(S, k) == CHOOSE i \in S : Cardinality({j \in S : j <= i}) = k

\* C26: the list returned holds exactly the affected issues, each place of
\* the input once and in input order.
C26_ExactlyTheAffected ==
    pc = "done" =>
        /\ Len(affected) = Cardinality(AffectedPlaces)
        /\ \A k \in 1..Len(affected) :
               affected[k] = issues[KthOf(AffectedPlaces, k)]

\* A call that returned an issue 20 lines from a changed line and left out
\* an issue 21 lines from the only changed line.
C26_Witness ==
    /\ pc = "done"
    /\ Cardinality(ChangedLines(cs_in)) = 1
    /\ \E i, j \in 1..Len(issues), c \in ChangedLines(cs_in) :
           /\ LineOf(issues[i]) - c = ProximityWindow
           /\ InSeq(issues[i], affected)
           /\ LineOf(issues[j]) - c = ProximityWindow + 1
           /\ ~InSeq(issues[j], affected)

(***************************************************************************)
(* Properties of the analysis cache (checked under SpecCache).             *)
(***************************************************************************)
\* The places of the cache_analysis calls made for a hash.
StoresFor(contract_hash) ==
    {i \in 1..Len(stored) : stored[i].contract_hash = contract_hash}

\* The most recent cache_analysis call made for a hash that has one.
LastStore(contract_hash) ==
    stored[CHOOSE i \in StoresFor(contract_hash) :
               \A j \in StoresFor(contract_hash) : j <= i]

\* C24: get_cached_analysis answers None for a hash nothing was stored
\* under, and otherwise the result of the most recent cache_analysis for
\* that hash, whatever was stored under other hashes before or since.
C24_GetReturnsLastStored ==
    pc = "got" =>
        got.result = (IF StoresFor(got.contract_hash) = {} THEN None
                      ELSE LastStore(got.contract_hash).analysis_result)

\* A hash stored twice with different results, another hash stored after
\* it, and the first hash asked.
C24_Witness ==
    /\ pc = "got"
    /\ \E i, j, k \in 1..Len(stored) :
           /\ i < j /\ j < k
           /\ stored[i].contract_hash = got.contract_hash
           /\ stored[j].contract_hash = got.contract_hash
           /\ stored[i].analysis_result # stored[j].analysis_result
           /\ stored[k].contract_hash # got.contract_hash
           /\ stored[k].analysis_result # stored[j].analysis_result

\* C25 (as claimed): a result stored more than the retention window ago,
\* and not replaced since, is no longer returned by get_cached_analysis.
C25_OldEntryNotReturned ==
    pc = "got" =>
        \A i \in StoresFor(got.contract_hash) :
            (stored[i] = LastStore(got.contract_hash) /\ stored[i].at < now)
                => got.result = None

(***************************************************************************)
(* Properties of concurrent verifies (checked under SpecRace).             *)
(***************************************************************************)
\* The sum of the counts of the patterns of a reason in a list of patterns.
RECURSIVE CountOfReason(_, _)
CountOfReason(patterns, reason) ==
    IF patterns = <<>> THEN 0
    ELSE (IF Head(patterns).reason = reason THEN Head(patterns).count ELSE 0)
         + CountOfReason(Tail(patterns), reason)

\* C23 (as claimed): when every verify in flight has returned, the
\* false_positive_count and the pattern count of every reason are those of
\* the same successful verifies executed one after the other.
C23_NoLostUpdate ==
    (\A t \in ThreadIds : threads[t].pc = "done") =>
        \A issue_type \in IssueTypes :
            /\ issue_patterns[issue_type].present = serial[issue_type].present
            /\ issue_patterns[issue_type].false_positive_count
                 = serial[issue_type].false_positive_count
            /\ \A reason \in Reasons :
                   CountOfReason(issue_patterns[issue_type].patterns, reason)
                     = CountOfReason(serial[issue_type].patterns, reason)

=============================================================================
